---- MODULE Spec2Model ----
(***************************************************************************)
(* Pong (src/type.py): the configuration constants, Paddle, Ball,          *)
(* circle_rect_collision, reflect_ball_from_paddle and the main loop.      *)
(*                                                                         *)
(* Python floats are modelled in fixed point: a float f is the integer     *)
(* f * SCALE (thousandths of a pixel, thousandths of a radian).  pygame    *)
(* Rect coordinates are integers (pixels), as in pygame.                   *)
(***************************************************************************)
EXTENDS Integers, FiniteSets

\* ------------------------------------------------------------ configuration
WIDTH == 800
HEIGHT == 500
PADDLE_W == 12
PADDLE_H == 100
PADDLE_OFFSET == 20
PLAYER_SPEED == 7
AI_MAX_SPEED == 5
BALL_RADIUS == 8
BALL_SPEED == 5
BALL_MAX_SPEED == 14

\* fixed-point resolution of a float
SCALE == 1000
\* BALL_SPEED_INC = 0.5
BALL_SPEED_INC == SCALE \div 2
\* math.pi / 4 and math.pi / 6, rounded toward zero as the doubles are
PI4 == 785
PI6 == 523
\* the AI dead zone, the literal 4 of "abs(diff) > 4"
DEAD_ZONE == 4

\* ------------------------------------------------------------ bounds
\* frames of the session explored when the player uses pointer and keys
MaxFrames == 6
\* points played in a match before the model stops playing frames
MaxScore == 2
\* rounding of the fixed-point hypot, cos and sin, in units of 1 / SCALE: a
\* speed recomputed from the velocity is this close to the speed kept
SpeedTol == 20

\* ------------------------------------------------------------ arithmetic
Fix(n) == n * SCALE

Abs(a) == IF a < 0 THEN -a ELSE a

Min(a, b) == IF a < b THEN a ELSE b

Max(a, b) == IF a > b THEN a ELSE b

\* quotient rounded toward zero (q > 0): int() of a float, and the rounding of
\* a fixed-point product or quotient
TruncDiv(p, q) == IF p >= 0 THEN p \div q ELSE -((-p) \div q)

\* a * b of two fixed-point numbers
MulFix(a, b) == TruncDiv(a * b, SCALE)

\* math.cos(a), a in [-pi/4, pi/4]: 1 - a^2/2 + a^4/24 - a^6/720
Cos(a) ==
    LET a2 == (a * a) \div SCALE
    IN  SCALE - a2 \div 2 + (a2 * a2) \div (24 * SCALE)
              - (a2 * a2 * a2) \div (720 * SCALE * SCALE)

\* math.sin(a), a in [-pi/4, pi/4]: a - a^3/6 + a^5/120, an odd function
Sin(a) ==
    LET n  == Abs(a)
        a2 == (n * n) \div SCALE
        v  == n - (n * a2) \div (6 * SCALE) + (n * a2 * a2) \div (120 * SCALE * SCALE)
    IN  IF a >= 0 THEN v ELSE -v

RECURSIVE SqrtSearch(_, _, _)
SqrtSearch(n, lo, hi) ==
    IF lo >= hi THEN lo
    ELSE LET mid == (lo + hi + 1) \div 2
         IN  IF mid * mid <= n THEN SqrtSearch(n, mid, hi)
                               ELSE SqrtSearch(n, lo, mid - 1)

\* math.hypot(vx, vy), rounded down
Hypot(vx, vy) == SqrtSearch(vx * vx + vy * vy, 0, 2 * Fix(BALL_MAX_SPEED))

\* ------------------------------------------------------------ Paddle
\* Paddle.rect is a pygame.Rect: integers; a paddle is modelled by rect.top,
\* its x, width and height never change after construction
PaddleInitTop == (HEIGHT - PADDLE_H) \div 2

LeftPaddleX == PADDLE_OFFSET

RightPaddleX == WIDTH - PADDLE_W - PADDLE_OFFSET

PaddleRect(x, top) ==
    [left |-> x, top |-> top, right |-> x + PADDLE_W, bottom |-> top + PADDLE_H]

\* Paddle.move_to(y): rect.centery = max(PADDLE_H//2, min(HEIGHT - PADDLE_H//2, int(y)));
\* setting centery moves rect.top to centery - height // 2
MoveTo(top, y) ==
    Max(PADDLE_H \div 2, Min(HEIGHT - PADDLE_H \div 2, y)) - PADDLE_H \div 2

\* move_by without its second clamp (the mutant of C1)
MoveByNoBottomClamp(top, dy) ==
    LET y1 == TruncDiv(Fix(top) + dy, SCALE)
    IN  IF y1 < 0 THEN 0 ELSE y1

\* Paddle.move_by(dy), dy a float in fixed point: rect.y += dy truncates the
\* sum to an integer, then the two clamps
MoveBy(top, dy) ==
    LET y1 == TruncDiv(Fix(top) + dy, SCALE)
        y2 == IF y1 < 0 THEN 0 ELSE y1
    IN  IF y2 + PADDLE_H > HEIGHT THEN HEIGHT - PADDLE_H ELSE y2

\* ------------------------------------------------------------ Ball
BallR == Fix(BALL_RADIUS)

\* the serve angles drawn by random.uniform(-pi/6, pi/6)
ServeAngles == {-PI6, -124, 0, 150, PI6}

\* dirx with the two sides exchanged (the mutant of C5)
ServeDirsSwapped(serving_to) ==
    IF serving_to = "left" THEN {1}
    ELSE IF serving_to = "right" THEN {-1}
    ELSE {-1, 1}

\* dirx drawn at random whatever the side asked for (the mutant of C11)
ServeDirsUnbiased(serving_to) == {-1, 1}

\* dirx of Ball.reset(serving_to)
ServeDirs(serving_to) ==
    IF serving_to = "left" THEN {-1}
    ELSE IF serving_to = "right" THEN {1}
    ELSE {-1, 1}

\* a reset that leaves out the halving of WIDTH (the mutant of C6)
BallResetOffCentre(angle, dirx) ==
    LET speed == Fix(BALL_SPEED)
    IN  [x     |-> Fix(WIDTH),
         y     |-> Fix(HEIGHT) \div 2,
         speed |-> speed,
         vx    |-> MulFix(dirx * speed, Cos(angle)),
         vy    |-> MulFix(speed, Sin(angle))]

\* Ball.reset with the drawn angle and direction
BallReset(angle, dirx) ==
    LET speed == Fix(BALL_SPEED)
    IN  [x     |-> Fix(WIDTH) \div 2,
         y     |-> Fix(HEIGHT) \div 2,
         speed |-> speed,
         vx    |-> MulFix(dirx * speed, Cos(angle)),
         vy    |-> MulFix(speed, Sin(angle))]

\* the balls Ball.reset(serving_to) can produce
Serves(serving_to) ==
    {BallReset(a, d) : a \in ServeAngles, d \in ServeDirs(serving_to)}

\* an update that forgets the horizontal move (the mutant of C17)
BallUpdateVerticalOnly(b) == [b EXCEPT !.y = b.y + b.vy]

\* Ball.update
BallUpdate(b) == [b EXCEPT !.x = b.x + b.vx, !.y = b.y + b.vy]

\* ------------------------------------------------------------ collisions
\* a collision test of the ball's centre alone, its radius left out (the
\* mutant of C19)
CentreInRect(cx, cy, r, rect) ==
    /\ Fix(rect.left) <= cx /\ cx <= Fix(rect.right)
    /\ Fix(rect.top) <= cy /\ cy <= Fix(rect.bottom)

\* circle_rect_collision; dx*dx + dy*dy <= r*r is evaluated only when both
\* |dx| <= r and |dy| <= r, which it implies (the squares stay in range)
CircleRectCollision(cx, cy, r, rect) ==
    LET closest_x == Max(Fix(rect.left), Min(cx, Fix(rect.right)))
        closest_y == Max(Fix(rect.top), Min(cy, Fix(rect.bottom)))
        dx == cx - closest_x
        dy == cy - closest_y
    IN  /\ Abs(dx) <= r
        /\ Abs(dy) <= r
        /\ dx * dx + dy * dy <= r * r

\* the speed ramp without its cap (the mutant of C2)
ReboundSpeedUncapped(b) == Hypot(b.vx, b.vy) + BALL_SPEED_INC

\* the speed reflect_ball_from_paddle gives the ball
ReboundSpeed(b) == Min(Fix(BALL_MAX_SPEED), Hypot(b.vx, b.vy) + BALL_SPEED_INC)

\* relative without its clamp (the mutant of C10)
RelativeUnclamped(b, top) ==
    LET paddle_center == Fix(top) + Fix(PADDLE_H) \div 2
    IN  TruncDiv((b.y - paddle_center) * SCALE, Fix(PADDLE_H) \div 2)

\* relative of reflect_ball_from_paddle, clamped to -1..1
Relative(b, top) ==
    LET paddle_center == Fix(top) + Fix(PADDLE_H) \div 2
        relative == TruncDiv((b.y - paddle_center) * SCALE, Fix(PADDLE_H) \div 2)
    IN  Max(-SCALE, Min(SCALE, relative))

\* a reflection that negates vx instead of forcing its sign (the mutant of C9)
ReflectByNegation(b, top, is_left_paddle) ==
    LET bounce_angle == MulFix(Relative(b, top), PI4)
        speed == ReboundSpeed(b)
        ax == Abs(MulFix(speed, Cos(bounce_angle)))
    IN  [b EXCEPT !.vx = IF b.vx > 0 THEN -ax ELSE ax,
                  !.vy = MulFix(speed, Sin(bounce_angle)),
                  !.speed = speed]

\* a reflection that keeps the incoming speed (the mutant of C13)
ReflectWithoutRamp(b, top, is_left_paddle) ==
    LET bounce_angle == MulFix(Relative(b, top), PI4)
        speed == Min(Fix(BALL_MAX_SPEED), Hypot(b.vx, b.vy))
        ax == Abs(MulFix(speed, Cos(bounce_angle)))
    IN  [b EXCEPT !.vx = IF is_left_paddle THEN ax ELSE -ax,
                  !.vy = MulFix(speed, Sin(bounce_angle)),
                  !.speed = speed]

\* reflect_ball_from_paddle(ball, paddle, is_left_paddle)
ReflectBallFromPaddle(b, top, is_left_paddle) ==
    LET bounce_angle == MulFix(Relative(b, top), PI4)
        speed == ReboundSpeed(b)
        ax == Abs(MulFix(speed, Cos(bounce_angle)))
    IN  [b EXCEPT !.vx = IF is_left_paddle THEN ax ELSE -ax,
                  !.vy = MulFix(speed, Sin(bounce_angle)),
                  !.speed = speed]

\* wall collision of main: top, else bottom
WallSide(b) ==
    IF b.y - BallR <= 0 THEN "top"
    ELSE IF b.y + BallR >= Fix(HEIGHT) THEN "bottom"
    ELSE "none"

\* a bounce that negates vy without putting the ball back on the bound (the
\* mutant of C14)
WallCollisionNoClamp(b) == IF WallSide(b) = "none" THEN b ELSE [b EXCEPT !.vy = -b.vy]

WallCollision(b) ==
    IF WallSide(b) = "top" THEN [b EXCEPT !.y = BallR, !.vy = -b.vy]
    ELSE IF WallSide(b) = "bottom" THEN [b EXCEPT !.y = Fix(HEIGHT) - BallR, !.vy = -b.vy]
    ELSE b

\* the AI's move of the right paddle, from ball.y before the ball advances
AIDiff(b, top) == b.y - (Fix(top) + Fix(PADDLE_H) \div 2)

\* an AI that follows the ball without a dead zone (the mutant of C12)
AIMoveNoDeadZone(b, top) ==
    LET diff == AIDiff(b, top)
    IN  IF diff # 0
        THEN MoveBy(top, Max(-Fix(AI_MAX_SPEED), Min(Fix(AI_MAX_SPEED), diff)))
        ELSE top

AIMove(b, top) ==
    LET diff == AIDiff(b, top)
    IN  IF Abs(diff) > Fix(DEAD_ZONE)
        THEN MoveBy(top, Max(-Fix(AI_MAX_SPEED), Min(Fix(AI_MAX_SPEED), diff)))
        ELSE top

\* paddle collision of main, left paddle: snap the ball outside, then reflect
HitsLeft(b, top) ==
    CircleRectCollision(b.x, b.y, BallR, PaddleRect(LeftPaddleX, top))

\* a left-paddle collision that reflects the ball where it is (the mutant of C15)
LeftPaddleCollisionNoSnap(b, top) ==
    IF HitsLeft(b, top) THEN ReflectBallFromPaddle(b, top, TRUE) ELSE b

LeftPaddleCollision(b, top) ==
    IF HitsLeft(b, top)
    THEN ReflectBallFromPaddle(
             [b EXCEPT !.x = Fix(PaddleRect(LeftPaddleX, top).right) + BallR], top, TRUE)
    ELSE b

HitsRight(b, top) ==
    CircleRectCollision(b.x, b.y, BallR, PaddleRect(RightPaddleX, top))

RightPaddleCollision(b, top) ==
    IF HitsRight(b, top)
    THEN ReflectBallFromPaddle(
             [b EXCEPT !.x = Fix(PaddleRect(RightPaddleX, top).left) - BallR], top, FALSE)
    ELSE b

\* the scoring check with the two sides exchanged (the mutant of C4)
ScorerSwapped(b) ==
    IF b.x - BallR <= 0 THEN "left"
    ELSE IF b.x + BallR >= Fix(WIDTH) THEN "right"
    ELSE "none"

\* a scoring check with the left goal line on the left paddle's face (the
\* mutant of C16)
ScorerAtPaddleFace(b) ==
    IF b.x - BallR <= Fix(LeftPaddleX + PADDLE_W) THEN "right"
    ELSE IF b.x + BallR >= Fix(WIDTH) THEN "left"
    ELSE "none"

\* scoring check of main: who scores, "none" when the ball is in play
Scorer(b) ==
    IF b.x - BallR <= 0 THEN "right"
    ELSE IF b.x + BallR >= Fix(WIDTH) THEN "left"
    ELSE "none"

\* ------------------------------------------------------------ main
\* the y of the MOUSEMOTION events the player sends (event.pos), with values
\* outside the window to exercise the clamp of move_to
MouseYs == {-40, 130, 540}

VARIABLES
    left_paddle,    \* left_paddle.rect.top
    right_paddle,   \* right_paddle.rect.top
    ball,           \* [x, y, vx, vy, speed], floats in fixed point
    left_score,
    right_score,
    running,
    paused,
    pc,             \* where main is: "top" (while running), "events" (the event
                    \* loop), "ai", "ball", "left", "right", "score" (the
                    \* physics of an unpaused frame), "exit"
    frames,         \* clock.tick calls counted (only where MaxFrames bounds them)
    tick,           \* what the current frame has done so far, and the unpaused
                    \* frame before it (history)
    last            \* the step taken last, and whether it started paused, with
                    \* points on the board, with the ball moving right (history)

game == <<left_paddle, right_paddle, ball, left_score, right_score, paused>>

vars == <<left_paddle, right_paddle, ball, left_score, right_score, running,
          paused, pc, frames, tick, last>>

\* nothing done yet in the frame; prev_wall and prev_hit are the wall and the
\* paddles the ball met in the unpaused frame before it
NoTick ==
    [skipped |-> FALSE, wall |-> "none", hit |-> {}, scored |-> "none",
     prev_wall |-> "none", prev_hit |-> {}]

\* the history at the start of a frame: a skipped (paused) frame passes on
\* what it was handed
NewTick ==
    [NoTick EXCEPT !.prev_wall = IF tick.skipped THEN tick.prev_wall ELSE tick.wall,
                   !.prev_hit = IF tick.skipped THEN tick.prev_hit ELSE tick.hit]

Did(op) ==
    [op |-> op, was_paused |-> paused, had_points |-> left_score + right_score > 0,
     was_rightward |-> ball.vx > 0]

\* main up to the loop: the paddles, Ball() (which serves), the scores, the flags
Init ==
    /\ left_paddle = PaddleInitTop
    /\ right_paddle = PaddleInitTop
    /\ ball \in Serves("none")
    /\ left_score = 0
    /\ right_score = 0
    /\ running = TRUE
    /\ paused = FALSE
    /\ pc = "top"
    /\ frames = 0
    /\ tick = NoTick
    /\ last = [op |-> "init", was_paused |-> FALSE, had_points |-> FALSE,
               was_rightward |-> FALSE]

\* while running: ... clock.tick(FPS); n is the new frame count
LoopTop(n) ==
    /\ pc = "top"
    /\ running
    /\ pc' = "events"
    /\ frames' = n
    /\ tick' = NewTick
    /\ last' = Did("top")
    /\ UNCHANGED <<game, running>>

\* a loop that leaves only when also paused (the mutant of C8)
ExitWhenPaused ==
    /\ pc = "top"
    /\ ~running
    /\ pc' = IF paused THEN "exit" ELSE "events"
    /\ last' = Did("exit")
    /\ UNCHANGED <<game, running, frames, tick>>

\* the loop condition fails: pygame.quit(); sys.exit()
Exit ==
    /\ pc = "top"
    /\ ~running
    /\ pc' = "exit"
    /\ last' = Did("exit")
    /\ UNCHANGED <<game, running, frames, tick>>

\* event.type == pygame.QUIT
OnQuit ==
    /\ pc = "events"
    /\ running' = FALSE
    /\ last' = Did("quit")
    /\ UNCHANGED <<game, pc, frames, tick>>

\* KEYDOWN K_ESCAPE
OnEscape ==
    /\ pc = "events"
    /\ running' = FALSE
    /\ last' = Did("escape")
    /\ UNCHANGED <<game, pc, frames, tick>>

\* KEYDOWN K_SPACE
OnSpace ==
    /\ pc = "events"
    /\ paused' = ~paused
    /\ last' = Did("space")
    /\ UNCHANGED <<left_paddle, right_paddle, ball, left_score, right_score,
                   running, pc, frames, tick>>

\* a reset that forgets to clear the pause (the mutant of C7)
OnResetKeepsPause ==
    /\ pc = "events"
    /\ left_score' = 0
    /\ right_score' = 0
    /\ ball' \in Serves("none")
    /\ last' = Did("reset")
    /\ UNCHANGED <<left_paddle, right_paddle, running, paused, pc, frames, tick>>

\* KEYDOWN K_r
OnReset ==
    /\ pc = "events"
    /\ left_score' = 0
    /\ right_score' = 0
    /\ ball' \in Serves("none")
    /\ paused' = FALSE
    /\ last' = Did("reset")
    /\ UNCHANGED <<left_paddle, right_paddle, running, pc, frames, tick>>

\* MOUSEMOTION: left_paddle.move_to(my)
OnMouseMotion ==
    /\ pc = "events"
    /\ \E my \in MouseYs : left_paddle' = MoveTo(left_paddle, my)
    /\ last' = Did("mouse")
    /\ UNCHANGED <<right_paddle, ball, left_score, right_score, running, paused,
                   pc, frames, tick>>

\* the left paddle after the two key tests of main
KeysMove(top, up, down) ==
    LET t1 == IF up THEN MoveBy(top, -Fix(PLAYER_SPEED)) ELSE top
    IN  IF down THEN MoveBy(t1, Fix(PLAYER_SPEED)) ELSE t1

\* a frame that plays on although the game is paused (the mutant of C3)
KeysHeldNoPause(up, down) ==
    /\ pc = "events"
    /\ paused \/ left_score + right_score < MaxScore
    /\ left_paddle' = KeysMove(left_paddle, up, down)
    /\ pc' = "ai"
    /\ tick' = [tick EXCEPT !.skipped = FALSE]
    /\ last' = Did("keys")
    /\ UNCHANGED <<right_paddle, ball, left_score, right_score, running, paused, frames>>

\* held keys that are read only when the game is not paused (the mutant of C18)
KeysHeldIgnoredInPause(up, down) ==
    /\ pc = "events"
    /\ paused \/ left_score + right_score < MaxScore
    /\ left_paddle' = IF paused THEN left_paddle ELSE KeysMove(left_paddle, up, down)
    /\ pc' = IF paused THEN "top" ELSE "ai"
    /\ tick' = [tick EXCEPT !.skipped = paused]
    /\ last' = Did("keys")
    /\ UNCHANGED <<right_paddle, ball, left_score, right_score, running, paused, frames>>

\* the event loop ends; keys = pygame.key.get_pressed() with K_UP = up and
\* K_DOWN = down; then "if paused: ... continue".  An unpaused frame is
\* played only while the match has points left to play (MaxScore).
KeysHeld(up, down) ==
    /\ pc = "events"
    /\ paused \/ left_score + right_score < MaxScore
    /\ left_paddle' = KeysMove(left_paddle, up, down)
    /\ pc' = IF paused THEN "top" ELSE "ai"
    /\ tick' = [tick EXCEPT !.skipped = paused]
    /\ last' = Did("keys")
    /\ UNCHANGED <<right_paddle, ball, left_score, right_score, running, paused, frames>>

\* the AI moves the right paddle
AIStep ==
    /\ pc = "ai"
    /\ right_paddle' = AIMove(ball, right_paddle)
    /\ pc' = "ball"
    /\ last' = Did("ai")
    /\ UNCHANGED <<left_paddle, ball, left_score, right_score, running, paused,
                   frames, tick>>

\* ball.update() and the wall collision
BallStep ==
    /\ pc = "ball"
    /\ ball' = WallCollision(BallUpdate(ball))
    /\ tick' = [tick EXCEPT !.wall = WallSide(BallUpdate(ball))]
    /\ pc' = "left"
    /\ last' = Did("ball")
    /\ UNCHANGED <<left_paddle, right_paddle, left_score, right_score, running,
                   paused, frames>>

\* the collision with the left paddle
LeftPaddleStep ==
    /\ pc = "left"
    /\ ball' = LeftPaddleCollision(ball, left_paddle)
    /\ tick' = [tick EXCEPT !.hit = IF HitsLeft(ball, left_paddle)
                                    THEN tick.hit \cup {"left"} ELSE tick.hit]
    /\ pc' = "right"
    /\ last' = Did("left")
    /\ UNCHANGED <<left_paddle, right_paddle, left_score, right_score, running,
                   paused, frames>>

\* the collision with the right paddle
RightPaddleStep ==
    /\ pc = "right"
    /\ ball' = RightPaddleCollision(ball, right_paddle)
    /\ tick' = [tick EXCEPT !.hit = IF HitsRight(ball, right_paddle)
                                    THEN tick.hit \cup {"right"} ELSE tick.hit]
    /\ pc' = "score"
    /\ last' = Did("right")
    /\ UNCHANGED <<left_paddle, right_paddle, left_score, right_score, running,
                   paused, frames>>

\* the scoring check: the scorer's score, and the serve toward the scorer
ScoreStep ==
    /\ pc = "score"
    /\ right_score' = IF Scorer(ball) = "right" THEN right_score + 1 ELSE right_score
    /\ left_score' = IF Scorer(ball) = "left" THEN left_score + 1 ELSE left_score
    /\ IF Scorer(ball) = "none" THEN ball' = ball ELSE ball' \in Serves(Scorer(ball))
    /\ tick' = [tick EXCEPT !.scored = Scorer(ball)]
    /\ pc' = "top"
    /\ last' = Did("score")
    /\ UNCHANGED <<left_paddle, right_paddle, running, paused, frames>>

Physics == AIStep \/ BallStep \/ LeftPaddleStep \/ RightPaddleStep \/ ScoreStep

\* the session with every input, its first MaxFrames frames
Next ==
    \/ (frames < MaxFrames /\ LoopTop(frames + 1))
    \/ Exit
    \/ OnQuit
    \/ OnEscape
    \/ OnSpace
    \/ OnReset
    \/ OnMouseMotion
    \/ (\E up, down \in BOOLEAN : KeysHeld(up, down))
    \/ Physics

Spec == Init /\ [][Next]_vars

\* the match with the left paddle left alone (no pointer, no key held), for
\* as many frames as its MaxScore points take: the player pauses and resumes
\* at will, and resets the match once it is over
NextRally ==
    \/ LoopTop(frames)
    \/ OnSpace
    \/ (left_score + right_score >= MaxScore /\ OnReset)
    \/ KeysHeld(FALSE, FALSE)
    \/ Physics

SpecRally == Init /\ [][NextRally]_vars

\* the match played without a pause and without a quit, the left paddle left
\* alone: every frame is an unpaused one, and the player may reset the match
\* in any frame in which the right paddle still stands where it was
\* constructed (the matches explored all start from there).  The loop runs on
\* its own: a frame that can start does start, its event loop ends, and its
\* physics is carried out.
NextPlay ==
    \/ LoopTop(frames)
    \/ (right_paddle = PaddleInitTop /\ OnReset)
    \/ KeysHeld(FALSE, FALSE)
    \/ Physics

PlayFairness ==
    /\ WF_vars(LoopTop(frames))
    /\ WF_vars(KeysHeld(FALSE, FALSE))
    /\ WF_vars(Physics)

SpecPlay == Init /\ [][NextPlay]_vars /\ PlayFairness

\* ------------------------------------------------------------ Paddle alone
\* the dy of the move_by calls made on a paddle taken alone: whole and
\* fractional steps, and steps longer than the field is high
MoveDys == {-Fix(600), -Fix(26), -12500, Fix(26), Fix(600)}

\* paddle.move_to(y) on either paddle
CallMoveTo ==
    /\ pc = "top"
    /\ \E y \in MouseYs :
          \/ left_paddle' = MoveTo(left_paddle, y) /\ UNCHANGED right_paddle
          \/ right_paddle' = MoveTo(right_paddle, y) /\ UNCHANGED left_paddle
    /\ last' = Did("move_to")
    /\ UNCHANGED <<ball, left_score, right_score, running, paused, pc, frames, tick>>

\* paddle.move_by(dy) on either paddle
CallMoveBy ==
    /\ pc = "top"
    /\ \E dy \in MoveDys :
          \/ left_paddle' = MoveBy(left_paddle, dy) /\ UNCHANGED right_paddle
          \/ right_paddle' = MoveBy(right_paddle, dy) /\ UNCHANGED left_paddle
    /\ last' = Did("move_by")
    /\ UNCHANGED <<ball, left_score, right_score, running, paused, pc, frames, tick>>

NextPaddle == CallMoveTo \/ CallMoveBy

\* the two paddles as constructed by main, under any sequence of calls
SpecPaddle == Init /\ [][NextPaddle]_vars

\* ------------------------------------------------------------ Ball.reset alone
\* the angles random.uniform(-pi/6, pi/6) is taken to draw when reset is
\* called on its own: the range in steps of 7/1000 radian, with both ends
ServeRange == {a \in -PI6..PI6 : a % 7 = 0 \/ Abs(a) = PI6}

\* ball.reset(serving_to), serving_to one of 'left', 'right' and None ("none")
CallReset(serving_to) ==
    /\ pc = "top"
    /\ \E a \in ServeRange, d \in ServeDirs(serving_to) : ball' = BallReset(a, d)
    /\ last' = Did([left |-> "reset_left", right |-> "reset_right",
                    none |-> "reset_none"][serving_to])
    /\ UNCHANGED <<left_paddle, right_paddle, left_score, right_score, running,
                   paused, pc, frames, tick>>

NextServe == CallReset("left") \/ CallReset("right") \/ CallReset("none")

\* the ball as constructed by main, under any sequence of reset calls
SpecServe == Init /\ [][NextServe]_vars

\* ------------------------------------------------------------ paddle collision alone
\* the two paddle-collision steps of a frame applied to any ball: the inputs
\* of circle_rect_collision and reflect_ball_from_paddle drawn from bounded
\* sets, with the ball on, beside and away from either paddle, moving either
\* way, slow and at full speed
ReflectTops == {0, PaddleInitTop, HEIGHT - PADDLE_H}

ReflectXs ==
    {Fix(LeftPaddleX + PADDLE_W) + BallR - Fix(2),
     Fix(WIDTH) \div 2,
     Fix(RightPaddleX) - BallR + Fix(2)}

ReflectYs == {BallR, Fix(142), Fix(200), Fix(250), Fix(300), Fix(358), Fix(HEIGHT) - BallR}

ReflectVelocities ==
    {<<-5000, 0, 5000>>, <<5000, 0, 5000>>, <<-4330, 2500, 5000>>,
     <<4330, -2500, 5000>>, <<-9899, -9899, 14000>>, <<9899, 9899, 14000>>}

InitReflect ==
    /\ left_paddle \in ReflectTops
    /\ right_paddle \in ReflectTops
    /\ ball \in {[x |-> x, y |-> y, vx |-> v[1], vy |-> v[2], speed |-> v[3]] :
                     x \in ReflectXs, y \in ReflectYs, v \in ReflectVelocities}
    /\ left_score = 0
    /\ right_score = 0
    /\ running = TRUE
    /\ paused = FALSE
    /\ pc = "left"
    /\ frames = 0
    /\ tick = NoTick
    /\ last = [op |-> "ball", was_paused |-> FALSE, had_points |-> FALSE,
               was_rightward |-> ball.vx > 0]

NextReflect == LeftPaddleStep \/ RightPaddleStep

SpecReflect == InitReflect /\ [][NextReflect]_vars

\* ------------------------------------------------------------ claims
PaddleInField(top) ==
    /\ 0 <= PaddleRect(0, top).top
    /\ PaddleRect(0, top).bottom <= HEIGHT

\* C1: after every move_to and move_by call, from the initial position and
\* for both paddles, the paddle rectangle lies within the field height:
\* 0 <= top and bottom <= HEIGHT.
C1_PaddleClamped == PaddleInField(left_paddle) /\ PaddleInField(right_paddle)

\* a call that had to clamp: the right paddle pushed onto the bottom by
\* move_by while the left one sits on the top
C1_Witness ==
    /\ last.op = "move_by"
    /\ right_paddle = HEIGHT - PADDLE_H
    /\ left_paddle = 0

\* a serve has just happened: Ball.reset ran in the step taken last
Served == last.op = "reset" \/ (last.op = "score" /\ tick.scored # "none")

SpeedInRange ==
    /\ Fix(BALL_SPEED) <= ball.speed
    /\ ball.speed <= Fix(BALL_MAX_SPEED)

\* the step is no rebound, or it ramps the speed
Ramps(hit) ==
    hit => /\ ball'.speed >= ball.speed
           /\ Abs(ball'.speed - Min(Fix(BALL_MAX_SPEED), ball.speed + BALL_SPEED_INC))
                  <= SpeedTol

SpeedStep ==
    /\ pc = "left" => Ramps(HitsLeft(ball, left_paddle))
    /\ pc = "right" => Ramps(HitsRight(ball, right_paddle))
    /\ pc = "ball" => ball'.speed = ball.speed
    /\ ball'.speed < ball.speed => Served' /\ ball'.speed = Fix(BALL_SPEED)

\* C2: BALL_SPEED <= ball.speed <= BALL_MAX_SPEED in every state; a paddle
\* rebound sets the speed to min(BALL_MAX_SPEED, previous speed +
\* BALL_SPEED_INC) (to the rounding of the arithmetic), never lower than
\* before; the ball update with its wall bounce leaves the speed unchanged;
\* the speed decreases only in a serve, to BALL_SPEED.
C2_SpeedRamp == []SpeedInRange /\ [][SpeedStep]_vars

\* a rebound that the cap cut short: the speed before it was above
\* BALL_MAX_SPEED - BALL_SPEED_INC, after it the ball is at full speed
C2_Witness ==
    /\ last.op \in {"left", "right"}
    /\ tick.hit # {}
    /\ ball.speed = Fix(BALL_MAX_SPEED)

InPhysics == pc \in {"ai", "ball", "left", "right", "score"}

PauseStep ==
    /\ (paused /\ paused') =>
           /\ ball' = ball
           /\ left_score' = left_score
           /\ right_score' = right_score
    /\ InPhysics' => ~paused'
    /\ last'.op = "space" => paused' = ~paused
    /\ (pc = "events" /\ pc' # "events") => pc' = IF paused THEN "top" ELSE "ai"
    /\ pc = "ball" =>
           /\ ball'.x = ball.x + ball.vx
           /\ tick'.wall = "none" => ball'.y = ball.y + ball.vy

\* C3: while the game stays paused (no pause toggle, no reset) no step
\* changes the ball's position or velocity or a score, and the physics steps
\* never run paused; a space key toggles the flag, a frame whose event loop
\* ends unpaused goes on to the physics, and there the ball advances by its
\* velocity (y up to the wall clamp).
C3_PauseFreezes == [][PauseStep]_vars

\* a whole frame was skipped in pause, the ball in flight and a point scored
C3_Witness ==
    /\ paused
    /\ pc = "top"
    /\ tick.skipped
    /\ ball.x # Fix(WIDTH) \div 2
    /\ left_score + right_score > 0

\* the ball's right edge has reached the right boundary
AtRightBoundary(b) == b.x + BallR >= Fix(WIDTH)

\* the ball's left edge has reached the left boundary
AtLeftBoundary(b) == b.x - BallR <= 0

ScoreConservationStep ==
    /\ left_score' > left_score <=>
           (pc = "score" /\ ~paused /\ AtRightBoundary(ball))
    /\ left_score' > left_score => left_score' = left_score + 1
    /\ right_score' > right_score <=>
           (pc = "score" /\ ~paused /\ AtLeftBoundary(ball))
    /\ right_score' > right_score => right_score' = right_score + 1
    /\ ~(left_score' > left_score /\ right_score' > right_score)
    /\ left_score' >= 0 /\ right_score' >= 0

\* C4: a step increases left_score, by exactly 1, if and only if it is the
\* scoring check of an unpaused frame and the ball's right edge has reached
\* the right boundary; it increases right_score, by exactly 1, if and only if
\* the ball's left edge has reached the left boundary; no step increases
\* both, and the scores are never negative.
C4_ScoreConservation == [][ScoreConservationStep]_vars

\* the frame's scoring check has given the left player the first point of the match
C4_Witness ==
    /\ last.op = "score"
    /\ tick.scored = "left"
    /\ left_score = 1
    /\ right_score = 0

\* C5 as stated: after a score the ball is served toward the side that was
\* scored against, vx > 0 after the right boundary, vx < 0 after the left.
C5_Original ==
    [][pc = "score" =>
           /\ AtRightBoundary(ball) => ball'.vx > 0
           /\ AtLeftBoundary(ball) => ball'.vx < 0]_vars

\* C5 amended: after a score the ball is served toward the side that scored,
\* away from the side that was scored against: vx < 0 after the right
\* boundary (the left player scored), vx > 0 after the left boundary.
C5_ServeTowardScorer ==
    [][pc = "score" =>
           /\ AtRightBoundary(ball) => ball'.vx < 0
           /\ AtLeftBoundary(ball) => ball'.vx > 0]_vars

\* the right player has scored and the serve flies to the right
C5_Witness ==
    /\ last.op = "score"
    /\ tick.scored = "right"
    /\ ball.vx > 0

RightCrossingStep ==
    (pc = "score" /\ AtRightBoundary(ball)) =>
        /\ left_score' = left_score + 1
        /\ right_score' = right_score
        /\ ball'.x = Fix(WIDTH) \div 2
        /\ ball'.y = Fix(HEIGHT) \div 2
        /\ ball'.speed = Fix(BALL_SPEED)
        /\ ball'.vx < 0
        /\ pc' = "top"

\* C6: the scoring check, the last step of a frame, in which the ball has
\* crossed the right boundary leaves left_score one higher, right_score as it
\* was, and the ball at the field centre with speed BALL_SPEED and vx < 0.
C6_ResetAfterRightCrossing == [][RightCrossingStep]_vars

\* the frame ended with the left player's point and the ball back at the centre
C6_Witness ==
    /\ pc = "top"
    /\ tick.scored = "left"
    /\ left_score >= 1
    /\ ball.x = Fix(WIDTH) \div 2
    /\ ball.vx < 0

ResetStep ==
    last'.op = "reset" =>
        /\ left_score' = 0
        /\ right_score' = 0
        /\ ~paused'
        /\ ball'.x = Fix(WIDTH) \div 2
        /\ ball'.y = Fix(HEIGHT) \div 2
        /\ ball'.speed = Fix(BALL_SPEED)
        /\ ball'.vx # 0
        /\ left_paddle' = left_paddle
        /\ right_paddle' = right_paddle
        /\ pc' = pc
        /\ running' = running

\* where a reset can be handled it can serve to the right and to the left
ResetEitherSign ==
    ENABLED OnReset =>
        /\ ENABLED (OnReset /\ ball'.vx > 0)
        /\ ENABLED (OnReset /\ ball'.vx < 0)

\* C7: the step that handles a reset command, running or paused, leaves both
\* scores 0, the paused flag false, the ball served from the field centre
\* with speed BALL_SPEED and vx # 0, and both paddles where they were; where
\* a reset can be handled, a serve to the right and a serve to the left are
\* both possible.
C7_Reset == []ResetEitherSign /\ [][ResetStep]_vars

\* a reset has just been handled in a paused game with points on the board,
\* the right paddle away from where it was constructed
C7_Witness ==
    /\ last.op = "reset"
    /\ last.was_paused
    /\ last.had_points
    /\ ~paused
    /\ left_score + right_score = 0
    /\ right_paddle # PaddleInitTop

\* C8 as stated: once a quit command has been received no game state is
\* modified again, not even by the rest of the frame in which it arrives.
C8_Original == [][~running => UNCHANGED game]_vars

QuitStep ==
    /\ last'.op \in {"quit", "escape"} => ~running' /\ UNCHANGED game
    /\ ~running => ~running'
    /\ (~running /\ pc = "top") => (pc' = "exit" /\ UNCHANGED game)
    /\ pc = "exit" => UNCHANGED <<game, running, pc>>
    /\ ~running => frames' = frames

\* C8 amended: a quit command (window close or Esc), running or paused,
\* clears the running flag, which is never set again; the events still
\* queued, the held keys and, unless paused, the physics of the frame in
\* which it arrives are still processed; the loop then exits without starting
\* another frame, and after the exit no game state is modified.
C8_QuitTerminal == [][QuitStep]_vars

\* the loop has exited after a quit that arrived in a paused game, the left
\* paddle moved by pointer or keys
C8_Witness ==
    /\ pc = "exit"
    /\ ~running
    /\ paused
    /\ left_paddle # PaddleInitTop

ReboundDirectionStep ==
    /\ (pc = "left" /\ HitsLeft(ball, left_paddle)) => ball'.vx > 0
    /\ (pc = "right" /\ HitsRight(ball, right_paddle)) => ball'.vx < 0

\* C9: a rebound off the left paddle leaves vx > 0 and a rebound off the
\* right paddle leaves vx < 0, whichever way the ball was moving.
C9_ReboundDirection == [][ReboundDirectionStep]_vars

\* a ball that was moving right when it met the left paddle still moves
\* right, away from it, after the rebound
C9_Witness ==
    /\ last.op = "left"
    /\ "left" \in tick.hit
    /\ last.was_rightward
    /\ ball.vx > 0
    /\ ball.vy # 0

ReboundAngleStep ==
    \/ (pc = "left" /\ HitsLeft(ball, left_paddle))
    \/ (pc = "right" /\ HitsRight(ball, right_paddle))
    => Abs(ball'.vy) <= Abs(ball'.vx)

\* C10: after every paddle rebound |vy| <= |vx|, also when the ball's offset
\* from the paddle centre exceeds the paddle's half height.
C10_ReboundAngle == [][ReboundAngleStep]_vars

\* the ball met the left paddle beyond its half height and left at the
\* steepest angle
C10_Witness ==
    /\ last.op = "left"
    /\ "left" \in tick.hit
    /\ Abs(ball.y - (Fix(left_paddle) + Fix(PADDLE_H) \div 2)) > Fix(PADDLE_H) \div 2
    /\ Abs(ball.vy) = Abs(ball.vx)

\* a reset call has just returned
ResetCalled == last.op \in {"reset_left", "reset_right", "reset_none"}

\* the velocity makes an angle of at most 30 degrees with the horizontal
\* axis: tan(30 degrees)^2 = 1/3
Within30Degrees(b) == 3 * b.vy * b.vy <= b.vx * b.vx

\* C11: reset('left') always leaves vx < 0 and reset('right') vx > 0, while
\* reset(None) can leave either sign; each of the three places the ball at
\* (WIDTH/2, HEIGHT/2) with speed BALL_SPEED and a velocity within 30 degrees
\* of the horizontal axis.
C11_ServeBias ==
    /\ last.op = "reset_left" => ball.vx < 0
    /\ last.op = "reset_right" => ball.vx > 0
    /\ ENABLED (CallReset("none") /\ ball'.vx > 0)
    /\ ENABLED (CallReset("none") /\ ball'.vx < 0)
    /\ ResetCalled =>
           /\ ball.x = Fix(WIDTH) \div 2
           /\ ball.y = Fix(HEIGHT) \div 2
           /\ ball.speed = Fix(BALL_SPEED)
           /\ Within30Degrees(ball)

\* reset(None) has served to the right at the steepest upward angle
C11_Witness ==
    /\ last.op = "reset_none"
    /\ ball.vx > 0
    /\ ball.vy = MulFix(Fix(BALL_SPEED), Sin(-PI6))

\* clamp(diff, -AI_MAX_SPEED, AI_MAX_SPEED)
ClampedDiff(diff) == Max(-Fix(AI_MAX_SPEED), Min(Fix(AI_MAX_SPEED), diff))

\* the paddle has moved by d pixels for a move_by(move): move cut to whole
\* pixels, rect coordinates being integers
MovedBy(d, move) == Fix(d) <= move /\ move < Fix(d) + SCALE

AITrackingStep ==
    LET diff == AIDiff(ball, right_paddle)
        d    == right_paddle' - right_paddle
    IN  /\ pc = "ai" =>
               /\ ~paused
               /\ Abs(diff) <= Fix(DEAD_ZONE) => d = 0
               /\ diff > Fix(DEAD_ZONE) =>
                      /\ 0 <= d /\ d <= AI_MAX_SPEED
                      /\ \/ MovedBy(d, ClampedDiff(diff))
                         \/ right_paddle' = HEIGHT - PADDLE_H
               /\ diff < -Fix(DEAD_ZONE) =>
                      /\ -AI_MAX_SPEED <= d /\ d <= 0
                      /\ \/ MovedBy(d, ClampedDiff(diff))
                         \/ right_paddle' = 0
        /\ pc # "ai" => d = 0

\* C12: the AI step runs only unpaused; with diff = ball.y before the ball
\* advances minus the right paddle's centre y, it leaves the right paddle
\* where it is when |diff| <= 4 and otherwise moves it by clamp(diff,
\* -AI_MAX_SPEED, AI_MAX_SPEED), cut to whole pixels, unless the field edge
\* stops it: by at most AI_MAX_SPEED and never away from the ball; no other
\* step (pointer, keys, reset, pause, quit) moves the right paddle.
C12_AITracking == [][AITrackingStep]_vars

\* the AI has moved the right paddle up by the full AI_MAX_SPEED in a frame
\* in which the player had moved the left paddle
C12_Witness ==
    /\ last.op = "ai"
    /\ right_paddle = PaddleInitTop - AI_MAX_SPEED
    /\ left_paddle # PaddleInitTop

\* the ball meets the left paddle at its vertical centre with velocity (-5, 0)
CentreHit ==
    /\ pc = "left"
    /\ HitsLeft(ball, left_paddle)
    /\ ball.y = Fix(left_paddle) + Fix(PADDLE_H) \div 2
    /\ ball.vx = -Fix(BALL_SPEED)
    /\ ball.vy = 0

\* C13: when the ball collides with the left paddle with ball.y at the
\* paddle's vertical centre and velocity (-5, 0), the rebound leaves vx > 0,
\* vy = 0 and speed = BALL_SPEED + BALL_SPEED_INC = 5.5.
C13_CentreHit ==
    [][CentreHit =>
           /\ ball'.vx > 0
           /\ ball'.vy = 0
           /\ ball'.speed = Fix(BALL_SPEED) + BALL_SPEED_INC]_vars

\* the first rebound of a serve along the axis: off the centre of the left
\* paddle, the ball leaves along the axis at 5.5
C13_Witness ==
    /\ last.op = "left"
    /\ "left" \in tick.hit
    /\ ~last.was_rightward
    /\ ball.y = Fix(left_paddle) + Fix(PADDLE_H) \div 2
    /\ ball.vx = Fix(BALL_SPEED) + BALL_SPEED_INC
    /\ ball.vy = 0

\* the ball is vertically inside the field
BallInField(b) == BallR <= b.y /\ b.y <= Fix(HEIGHT) - BallR

WallBounceStep ==
    /\ pc = "ball" =>
           /\ ball'.vx = ball.vx
           /\ ball'.speed = ball.speed
           /\ tick'.wall = "none" => ball'.vy = ball.vy
           /\ tick'.wall = "top" =>
                  /\ ball'.y = BallR
                  /\ ball'.vy = -ball.vy
                  /\ ball'.vy > 0
           /\ tick'.wall = "bottom" =>
                  /\ ball'.y = Fix(HEIGHT) - BallR
                  /\ ball'.vy = -ball.vy
                  /\ ball'.vy < 0
           /\ (tick.prev_wall # "none" /\ tick.prev_hit = {}) =>
                  tick'.wall # tick.prev_wall
    /\ pc # "ball" => (ball'.y = ball.y \/ ball'.y = Fix(HEIGHT) \div 2)

\* C14: in every state, so at the end of every frame, BALL_RADIUS <= ball.y
\* <= HEIGHT - BALL_RADIUS; a top or bottom wall bounce negates vy, puts y on
\* the bound and leaves vx and the speed as they were, and after it vy points
\* into the field; the ball does not bounce off the wall it bounced off in
\* the unpaused frame before unless a paddle rebound came between; no other
\* step changes y, but for a serve from the centre.
C14_WallContainment == []BallInField(ball) /\ [][WallBounceStep]_vars

\* the ball has just bounced off the top wall, in a rally after the first
\* point, and heads down from the bound
C14_Witness ==
    /\ last.op = "ball"
    /\ tick.wall = "top"
    /\ ball.y = BallR
    /\ ball.vy > 0
    /\ left_score + right_score > 0

NoStickingStep ==
    /\ pc = "left" =>
           /\ HitsLeft(ball, left_paddle) =>
                  ball'.x = Fix(PaddleRect(LeftPaddleX, left_paddle).right) + BallR
           /\ "left" \in tick.prev_hit => ~HitsLeft(ball, left_paddle)
    /\ pc = "right" =>
           /\ HitsRight(ball, right_paddle) =>
                  ball'.x = Fix(PaddleRect(RightPaddleX, right_paddle).left) - BallR
           /\ "right" \in tick.prev_hit => ~HitsRight(ball, right_paddle)

\* C15: a rebound places the ball centre at paddle.right + r (left paddle) or
\* paddle.left - r (right paddle), and a paddle the ball rebounded off in the
\* unpaused frame before does not collide with it in this one: no two
\* consecutive unpaused frames rebound off the same paddle.
C15_NoSticking == [][NoStickingStep]_vars

\* the frame after a rebound off the left paddle: the ball, still level with
\* the paddle, has passed the left paddle's test without a collision
C15_Witness ==
    /\ last.op = "left"
    /\ "left" \in tick.prev_hit
    /\ tick.hit = {}
    /\ Fix(left_paddle) <= ball.y
    /\ ball.y <= Fix(left_paddle + PADDLE_H)
    /\ ball.x > Fix(PaddleRect(LeftPaddleX, left_paddle).right) + BallR
    /\ ball.x < Fix(PaddleRect(LeftPaddleX, left_paddle).right) + BallR + Fix(BALL_MAX_SPEED)

ReboundOrScoreStep ==
    pc = "score" =>
        /\ tick.hit # {} =>
               /\ left_score' = left_score
               /\ right_score' = right_score
               /\ ball' = ball
               /\ tick'.scored = "none"
        /\ (left_score' # left_score \/ right_score' # right_score) =>
               /\ tick.hit = {}
               /\ tick'.scored # "none"

\* C16: the scoring check of a frame in which the ball rebounded off a paddle
\* changes no score and does not serve the ball, and a scoring check that
\* changes a score ends a frame without a paddle rebound.
C16_ReboundOrScore == [][ReboundOrScoreStep]_vars

\* a frame with a rebound off the right paddle has ended without a point, in
\* a match in which a point was scored before
C16_Witness ==
    /\ pc = "top"
    /\ last.op = "score"
    /\ "right" \in tick.hit
    /\ tick.scored = "none"
    /\ ball.x = Fix(RightPaddleX) - BallR
    /\ left_score + right_score > 0

\* the step taken last was a paddle rebound
Rebounded ==
    \/ last.op = "left" /\ "left" \in tick.hit
    \/ last.op = "right" /\ "right" \in tick.hit

\* the step taken last incremented a score
Scored == last.op = "score" /\ tick.scored # "none"

HorizontalSignStep ==
    (ball'.vx > 0) # (ball.vx > 0) =>
        \/ pc = "left" /\ HitsLeft(ball, left_paddle)
        \/ pc = "right" /\ HitsRight(ball, right_paddle)
        \/ Served'

\* C17 as stated: vx is never 0 and changes sign only in a rebound or a
\* serve, and in any run of unpaused frames without a quit the ball
\* eventually rebounds off a paddle or a score is incremented.
C17_Original ==
    /\ [](ball.vx # 0)
    /\ [][HorizontalSignStep]_vars
    /\ (pc = "ai") ~> (Rebounded \/ Scored)

\* C17 amended: vx is never 0 and changes sign only in a rebound or a serve,
\* and in any run of unpaused frames without a quit the ball eventually
\* rebounds off a paddle, or a score is incremented, or the player resets
\* the match: only reset commands that keep coming can put both off for ever.
C17_HorizontalProgress ==
    /\ [](ball.vx # 0)
    /\ [][HorizontalSignStep]_vars
    /\ (pc = "ai") ~> (Rebounded \/ Scored \/ last.op = "reset")

\* deep in a rally the ball, flying right at full speed, has rebounded off
\* the right paddle and flies left
C17_Witness ==
    /\ last.op = "right"
    /\ "right" \in tick.hit
    /\ last.was_rightward
    /\ ball.vx < 0
    /\ ball.speed = Fix(BALL_MAX_SPEED)

\* in a paused frame the pointer can move the left paddle, and so can the
\* held keys
PausedInputApplies ==
    (paused /\ pc = "events") =>
        /\ ENABLED (OnMouseMotion /\ left_paddle' # left_paddle)
        /\ ENABLED ((\E up, down \in BOOLEAN : KeysHeld(up, down))
                        /\ left_paddle' # left_paddle)

PausedInputStep ==
    /\ (paused /\ last'.op \in {"mouse", "keys"}) =>
           /\ PaddleInField(left_paddle')
           /\ right_paddle' = right_paddle
           /\ ball' = ball
           /\ left_score' = left_score
           /\ right_score' = right_score
           /\ paused'
    /\ (paused /\ last'.op = "keys") =>
           /\ Abs(left_paddle' - left_paddle) <= PLAYER_SPEED
           /\ pc' = "top"
           /\ tick'.skipped

\* C18: in a paused frame a MOUSEMOTION event and the held keys can still
\* move the left paddle; the left paddle stays within the field, and the
\* right paddle, the ball and both scores are left as they were; the frame
\* ends after the keys, without physics.
C18_PausedInput == []PausedInputApplies /\ [][PausedInputStep]_vars

\* a paused frame has ended with the left paddle one key step below where
\* the pointer had put it, the ball still where it was served
C18_Witness ==
    /\ paused
    /\ pc = "top"
    /\ tick.skipped
    /\ last.op = "keys"
    /\ last.was_paused
    /\ left_paddle = MoveTo(PaddleInitTop, 130) + PLAYER_SPEED
    /\ ball.x = Fix(WIDTH) \div 2

\* the collision band of a paddle: the x of a ball centre within r of the
\* paddle's left and right edges
InBand(x, paddle_x) ==
    /\ Fix(paddle_x) - BallR <= x
    /\ x <= Fix(paddle_x + PADDLE_W) + BallR

\* ball.y within the paddle's vertical extent
Level(y, top) == Fix(top) <= y /\ y <= Fix(top + PADDLE_H)

SlowerThanBand ==
    /\ BALL_MAX_SPEED < PADDLE_W + 2 * BALL_RADIUS
    /\ Abs(ball.vx) <= Fix(BALL_MAX_SPEED)

NoTunnellingStep ==
    /\ ~ /\ ball.x > Fix(LeftPaddleX + PADDLE_W) + BallR
          /\ ball'.x < Fix(LeftPaddleX) - BallR
    /\ ~ /\ ball.x < Fix(RightPaddleX) - BallR
          /\ ball'.x > Fix(RightPaddleX + PADDLE_W) + BallR
    /\ (pc = "left" /\ InBand(ball.x, LeftPaddleX) /\ Level(ball.y, left_paddle)) =>
           /\ HitsLeft(ball, left_paddle)
           /\ "left" \in tick'.hit
           /\ ball'.vx > 0
    /\ (pc = "right" /\ InBand(ball.x, RightPaddleX) /\ Level(ball.y, right_paddle)) =>
           /\ HitsRight(ball, right_paddle)
           /\ "right" \in tick'.hit
           /\ ball'.vx < 0

\* C19: |vx| never exceeds BALL_MAX_SPEED, which is less than the width
\* PADDLE_W + 2 * BALL_RADIUS of a paddle's collision band; no step takes the
\* ball centre from in front of a band to behind it; and a ball that comes to
\* a paddle's collision test inside the band and level with the paddle
\* rebounds.
C19_NoTunnelling == []SlowerThanBand /\ [][NoTunnellingStep]_vars

\* a ball flying left at full speed was caught by the left paddle
C19_Witness ==
    /\ last.op = "left"
    /\ "left" \in tick.hit
    /\ ~last.was_rightward
    /\ ball.speed = Fix(BALL_MAX_SPEED)
    /\ ball.x = Fix(LeftPaddleX + PADDLE_W) + BallR
    /\ ball.vx > 0

====
